---- MODULE Spec2Model ----
(***************************************************************************)
(* Piano Sync System: the coordinator (PianoSyncServer), the per-device    *)
(* sync core (PianoSyncCore, tempo-aware version) and the timers that tie  *)
(* them together.                                                          *)
(*                                                                         *)
(* Time is in milliseconds.  `now` is the coordinator's Date.now(); a      *)
(* device's performance.now() is now - TimeOrigin[d].  Timers fire exactly *)
(* when due (no scheduler jitter): time cannot pass a pending timer.       *)
(* JavaScript numbers are modelled as exact rationals extended with        *)
(* Infinity, -Infinity and NaN (floating-point rounding and negative zero  *)
(* are abstracted away); bpm values are integers.                          *)
(***************************************************************************)
EXTENDS Integers, Sequences, FiniteSets, TLC

VARIABLES
    now,               \* wall clock, ms
    songs,             \* PianoSyncServer.songs (the catalog)
    connectedClients,  \* PianoSyncServer.connectedClients (Map, insertion order)
    currentSession,    \* PianoSyncServer.currentSession
    systemStatus,      \* PianoSyncServer.systemStatus
    silenceTimeout,    \* PianoSyncServer.silenceTimeout (timer handle or null)
    lastNoteTime,      \* PianoSyncServer.lastNoteTime
    timers,            \* pending setTimeout callbacks of the coordinator
    timerSeq,          \* number of timer handles handed out so far
    outbox,            \* messages sent by the last handler, in send order
    dev,               \* PianoSyncCore state of every device
    sessionSeq,        \* history: number of sessions created so far
    hist,              \* history: what happened to the latest session
    lastOp             \* history: the operation that produced this state

serverVars == <<songs, connectedClients, currentSession, systemStatus,
                silenceTimeout, lastNoteTime, timers, timerSeq>>
histVars == <<sessionSeq, hist, lastOp>>
vars == <<now, songs, connectedClients, currentSession, systemStatus,
          silenceTimeout, lastNoteTime, timers, timerSeq, outbox, dev,
          sessionSeq, hist, lastOp>>

---------------------------------------------------------------------------
(* Bounds of the model *)

MaxTime == 15000
MaxSessions == 2
MaxTimers == 3
MaxTempoChanges == 2
MaxReconnectTime == 36000
MaxSyncTime == 10000

(* Program constants *)

maxSilenceDuration == 10000
GracePeriod == 1000
syncThreshold == 50
DefaultBpm == 120
reconnectInterval == 3000
maxReconnectAttempts == 10
latencyMeasureInterval == 5000

Clients == {1, 2}
TimeSteps == {5000}
BpmValues == {-60, 0, 60, 120}
ClientTypes == {"melody", "controller"}

\* null for object-valued fields, NullStr for string-valued ones
null == [isNull |-> TRUE]

NullStr == "null"

\* performance.timeOrigin of each device: performance.now() = Date.now() - origin
TimeOrigin == <<5000, -1000>>

Min(S) == CHOOSE x \in S : \A y \in S : x <= y

---------------------------------------------------------------------------
(* JavaScript numbers: n/d in lowest terms with d > 0, or d = 0 for        *)
(* Infinity (n = 1), -Infinity (n = -1) and NaN (n = 0).                   *)

Abs(x) == IF x < 0 THEN -x ELSE x

Sign(x) == IF x < 0 THEN -1 ELSE IF x > 0 THEN 1 ELSE 0

RECURSIVE GCD(_, _)
GCD(a, b) == IF b = 0 THEN a ELSE GCD(b, a % b)

Num(n, d) ==
    IF d = 0 THEN [n |-> Sign(n), d |-> 0]
    ELSE LET g == GCD(Abs(n), Abs(d))
         IN  [n |-> Sign(d) * (n \div g), d |-> Abs(d) \div g]

Int2Num(i) == [n |-> i, d |-> 1]

NaN == [n |-> 0, d |-> 0]

IsNaN(a) == a.d = 0 /\ a.n = 0

IsFinite(a) == a.d > 0

NumMul(a, b) == Num(a.n * b.n, a.d * b.d)

NumAdd(a, b) ==
    IF a.d = 0 /\ b.d = 0
    THEN (IF a.n = b.n THEN a ELSE NaN)
    ELSE Num(a.n * b.d + b.n * a.d, a.d * b.d)

NumNeg(a) == [n |-> -a.n, d |-> a.d]

NumSub(a, b) == NumAdd(a, NumNeg(b))

NumInv(a) ==
    IF a.n > 0 THEN [n |-> a.d, d |-> a.n]
    ELSE IF a.n < 0 THEN [n |-> -a.d, d |-> -a.n]
    ELSE IF a.d > 0 THEN [n |-> 1, d |-> 0]
    ELSE NaN

NumDiv(a, b) == NumMul(a, NumInv(b))

\* a < b, a <= b, a === b as JavaScript evaluates them (false on NaN)
NumLt(a, b) ==
    /\ ~IsNaN(a)
    /\ ~IsNaN(b)
    /\ IF a.d = 0 /\ b.d = 0 THEN a.n < b.n ELSE a.n * b.d < b.n * a.d

NumEq(a, b) == ~IsNaN(a) /\ ~IsNaN(b) /\ a = b

NumLe(a, b) == NumLt(a, b) \/ NumEq(a, b)

\* Math.max(0, x): NaN if x is NaN
MathMax0(a) == IF IsNaN(a) THEN NaN ELSE IF a.n < 0 THEN Int2Num(0) ELSE a

\* !x for a number x: true for 0 and NaN
Falsy(a) == a.n = 0

---------------------------------------------------------------------------
(* The device: PianoSyncCore (tempo-aware).  joinedLate, stopped and halted *)
(* are history fields: which branch the last sync_start took, whether a     *)
(* sync_stop has been handled with no sync_start since, and whether one has *)
(* been handled with neither a sync_start nor a sync_resume since.          *)
(* ws is the readyState of this.ws ("none" while this.ws is null),          *)
(* reconnectDue the time the pending reconnection timer fires (-1: none),   *)
(* pings the timestamps of the pings sent and not answered, and             *)
(* connectionFailed whether 'connectionFailed' has been emitted.            *)

InitCore ==
    [isPlaying |-> FALSE, startTime |-> Int2Num(0), currentSong |-> NullStr,
     originalBpm |-> DefaultBpm, currentBpm |-> DefaultBpm, tempoChanges |-> << >>,
     baseMusicTime |-> Int2Num(0), lastTempoChangeTime |-> 0,
     latency |-> 0, serverTimeOffset |-> Int2Num(0), clientId |-> 0,
     joinedLate |-> FALSE, stopped |-> FALSE, halted |-> FALSE, followedStart |-> 0,
     isConnected |-> FALSE, reconnectAttempts |-> 0, ws |-> "none",
     reconnectDue |-> -1, pings |-> {}, connectionFailed |-> FALSE]

\* getCurrentTime() on device d when the wall clock shows t: performance.now()
getCurrentTime(d, t) == t - TimeOrigin[d]

\* getMusicTime(), evaluated when performance.now() = currentTime
getMusicTime(core, currentTime) ==
    IF ~core.isPlaying \/ Falsy(core.startTime)
    THEN Int2Num(0)
    ELSE IF Len(core.tempoChanges) = 0
         THEN LET realTimeElapsed ==
                      NumDiv(NumSub(Int2Num(currentTime), core.startTime), Int2Num(1000))
              IN  MathMax0(realTimeElapsed)
         ELSE LET timeSinceLastChange ==
                      NumDiv(Int2Num(currentTime - core.lastTempoChangeTime), Int2Num(1000))
                  tempoRatio ==
                      NumDiv(Int2Num(core.currentBpm), Int2Num(core.originalBpm))
                  musicTimeElapsed == NumMul(timeSinceLastChange, tempoRatio)
                  totalMusicTime == NumAdd(core.baseMusicTime, musicTimeElapsed)
              IN  MathMax0(totalMusicTime)

\* if (data.elapsedTime && data.elapsedTime > 0): a mid-performance join
IsLateJoin(data) == ~Falsy(data.elapsedTime) /\ NumLt(Int2Num(0), data.elapsedTime)

\* a device that re-estimates the clock offset from sync_start's serverTime
handleSyncStartResync(core, data, currentTime) ==
    [core EXCEPT !.currentSong = data.song,
                 !.originalBpm = data.bpm,
                 !.currentBpm = data.bpm,
                 !.tempoChanges = << >>,
                 !.startTime = Int2Num(currentTime),
                 !.baseMusicTime = Int2Num(0),
                 !.lastTempoChangeTime = currentTime,
                 !.serverTimeOffset =
                     NumAdd(Int2Num(data.serverTime - currentTime), Num(core.latency, 2)),
                 !.isPlaying = TRUE,
                 !.joinedLate = FALSE,
                 !.stopped = FALSE,
                 !.halted = FALSE]

\* a device whose sync_start handler keeps the tempo history it had
handleSyncStartKeepsHistory(core, data, currentTime) ==
    IF IsLateJoin(data)
    THEN [core EXCEPT !.currentSong = data.song,
                      !.originalBpm = data.bpm,
                      !.currentBpm = data.bpm,
                      !.startTime = NumSub(Int2Num(currentTime),
                                           NumMul(data.elapsedTime, Int2Num(1000))),
                      !.baseMusicTime = data.elapsedTime,
                      !.lastTempoChangeTime = currentTime,
                      !.isPlaying = TRUE,
                      !.joinedLate = TRUE,
                      !.stopped = FALSE,
                      !.halted = FALSE]
    ELSE [core EXCEPT !.currentSong = data.song,
                      !.originalBpm = data.bpm,
                      !.currentBpm = data.bpm,
                      !.startTime = Int2Num(currentTime),
                      !.baseMusicTime = Int2Num(0),
                      !.lastTempoChangeTime = currentTime,
                      !.isPlaying = TRUE,
                      !.joinedLate = FALSE,
                      !.stopped = FALSE,
                      !.halted = FALSE]

\* handleSyncStart(data)
handleSyncStart(core, data, currentTime) ==
    IF IsLateJoin(data)
    THEN [core EXCEPT !.currentSong = data.song,
                      !.originalBpm = data.bpm,
                      !.currentBpm = data.bpm,
                      !.tempoChanges = << >>,
                      !.startTime = NumSub(Int2Num(currentTime),
                                           NumMul(data.elapsedTime, Int2Num(1000))),
                      !.baseMusicTime = data.elapsedTime,
                      !.lastTempoChangeTime = currentTime,
                      !.isPlaying = TRUE,
                      !.joinedLate = TRUE,
                      !.stopped = FALSE,
                      !.halted = FALSE]
    ELSE [core EXCEPT !.currentSong = data.song,
                      !.originalBpm = data.bpm,
                      !.currentBpm = data.bpm,
                      !.tempoChanges = << >>,
                      !.startTime = Int2Num(currentTime),
                      !.baseMusicTime = Int2Num(0),
                      !.lastTempoChangeTime = currentTime,
                      !.isPlaying = TRUE,
                      !.joinedLate = FALSE,
                      !.stopped = FALSE,
                      !.halted = FALSE]

\* a device whose sync_stop handler leaves the playing flag set
handleSyncStopStillPlaying(core) ==
    [core EXCEPT !.currentSong = NullStr,
                 !.startTime = Int2Num(0),
                 !.tempoChanges = << >>,
                 !.baseMusicTime = Int2Num(0),
                 !.lastTempoChangeTime = 0,
                 !.stopped = TRUE,
                 !.halted = TRUE]

\* handleSyncStop(data)
handleSyncStop(core) ==
    [core EXCEPT !.isPlaying = FALSE,
                 !.currentSong = NullStr,
                 !.startTime = Int2Num(0),
                 !.tempoChanges = << >>,
                 !.baseMusicTime = Int2Num(0),
                 !.lastTempoChangeTime = 0,
                 !.stopped = TRUE,
                 !.halted = TRUE]

\* a device that takes the new tempo as its base tempo as well
handleTempoChangeRebases(core, data, currentTime) ==
    LET oldMusicTime == getMusicTime(core, currentTime)
    IN  [core EXCEPT !.tempoChanges = Append(@, [time |-> currentTime,
                                                 oldBpm |-> core.currentBpm,
                                                 newBpm |-> data.bpm,
                                                 musicTimeAtChange |-> oldMusicTime]),
                     !.originalBpm = data.bpm,
                     !.currentBpm = data.bpm,
                     !.baseMusicTime = oldMusicTime,
                     !.lastTempoChangeTime = currentTime]

\* handleTempoChange(data)
handleTempoChange(core, data, currentTime) ==
    LET oldMusicTime == getMusicTime(core, currentTime)
    IN  [core EXCEPT !.tempoChanges = Append(@, [time |-> currentTime,
                                                 oldBpm |-> core.currentBpm,
                                                 newBpm |-> data.bpm,
                                                 musicTimeAtChange |-> oldMusicTime]),
                     !.currentBpm = data.bpm,
                     !.baseMusicTime = oldMusicTime,
                     !.lastTempoChangeTime = currentTime]

\* handleSyncPause(data)
handleSyncPause(core) == [core EXCEPT !.isPlaying = FALSE]

\* handleSyncResume(data): the breakpoint is taken from Date.now()
handleSyncResume(core, data, dateNow) ==
    [core EXCEPT !.currentSong = data.song,
                 !.originalBpm = data.bpm,
                 !.currentBpm = data.bpm,
                 !.startTime = Int2Num(data.startTime),
                 !.baseMusicTime = IF Falsy(data.elapsedTime)
                                   THEN Int2Num(0) ELSE data.elapsedTime,
                 !.lastTempoChangeTime = dateNow,
                 !.isPlaying = TRUE,
                 !.halted = FALSE]

\* a device that reports the one-way delay as its latency
calculateLatencyOneWay(core, pongData, currentTime) ==
    LET roundTripTime == currentTime - pongData.timestamp
        networkDelay == NumDiv(Int2Num(roundTripTime), Int2Num(2))
    IN  [core EXCEPT !.latency = roundTripTime \div 2,
                     !.serverTimeOffset =
                         NumAdd(Int2Num(pongData.serverTime - currentTime), networkDelay)]

\* calculateLatency(pongData)
calculateLatency(core, pongData, currentTime) ==
    LET roundTripTime == currentTime - pongData.timestamp
        networkDelay == NumDiv(Int2Num(roundTripTime), Int2Num(2))
    IN  [core EXCEPT !.latency = roundTripTime,
                     !.serverTimeOffset =
                         NumAdd(Int2Num(pongData.serverTime - currentTime), networkDelay)]

\* handleServerMessage(data) on device d when the wall clock shows t
handleServerMessage(core, data, d, t) ==
    CASE data.type = "welcome" -> [core EXCEPT !.clientId = data.clientId]
      [] data.type = "sync_start" -> handleSyncStart(core, data, getCurrentTime(d, t))
      [] data.type = "sync_stop" -> handleSyncStop(core)
      [] data.type = "tempo_change" -> handleTempoChange(core, data, getCurrentTime(d, t))
      [] data.type = "sync_pause" -> handleSyncPause(core)
      [] data.type = "sync_resume" -> handleSyncResume(core, data, t)
      [] data.type = "pong" -> calculateLatency(core, data, getCurrentTime(d, t))
      [] OTHER -> core

\* send(data): whether the message leaves (this.ws is OPEN)
CanSend(core) == core.ws = "open"

\* connectWebSocket(): a new socket, CONNECTING
connectWebSocket(core) == [core EXCEPT !.ws = "connecting", !.reconnectDue = -1]

\* ws.onopen: the register message is sent from here
onopen(core) == [core EXCEPT !.ws = "open", !.isConnected = TRUE,
                             !.reconnectAttempts = 0]

\* a device that gives up one close too late
attemptReconnectionOffByOne(core, t) ==
    IF core.reconnectAttempts > maxReconnectAttempts
    THEN [core EXCEPT !.connectionFailed = TRUE]
    ELSE [core EXCEPT !.reconnectAttempts = @ + 1,
                      !.reconnectDue = t + reconnectInterval]

\* attemptReconnection() when the wall clock shows t
attemptReconnection(core, t) ==
    IF core.reconnectAttempts >= maxReconnectAttempts
    THEN [core EXCEPT !.connectionFailed = TRUE]
    ELSE [core EXCEPT !.reconnectAttempts = @ + 1,
                      !.reconnectDue = t + reconnectInterval]

\* ws.onclose when the wall clock shows t; pings still unanswered are lost
onclose(core, t) ==
    attemptReconnection([core EXCEPT !.ws = "closed", !.isConnected = FALSE,
                                     !.pings = {}], t)

\* disconnect(): this.ws.close()
disconnect(core) ==
    IF core.ws \in {"connecting", "open"} THEN [core EXCEPT !.ws = "closing"] ELSE core

\* measureLatency() when performance.now() = currentTime
measureLatency(core, currentTime) ==
    IF ~core.isConnected THEN core
    ELSE IF CanSend(core) THEN [core EXCEPT !.pings = @ \cup {currentTime}]
    ELSE core

---------------------------------------------------------------------------
(* The coordinator: PianoSyncServer *)

Catalog ==
    << [id |-> "demo",  melody |-> 1, accompaniment |-> 1],
       [id |-> "solo",  melody |-> 1, accompaniment |-> 0],
       [id |-> "blank", melody |-> 0, accompaniment |-> 0] >>

SongIds == {"demo", "solo", "blank", "nosuch"}

ClientIds == {connectedClients[i].id : i \in DOMAIN connectedClients}

ClientIndex(c) == CHOOSE i \in DOMAIN connectedClients : connectedClients[i].id = c

Playing == currentSession # null

\* a coordinator that always takes the first score of the catalog
FindSongFirst(songId) == songs[1]

\* this.songs.find(s => s.id === songId) || this.songs[0]
FindSong(songId) ==
    IF \E i \in DOMAIN songs : songs[i].id = songId
    THEN songs[Min({i \in DOMAIN songs : songs[i].id = songId})]
    ELSE songs[1]

\* a coordinator that sends to the first connection only
broadcastToFirst(message) ==
    IF connectedClients = << >> THEN << >>
    ELSE << [to |-> connectedClients[1].id, msg |-> message] >>

\* broadcastToAll(message): one send per open connection, in Map order
broadcastToAll(message) ==
    [i \in DOMAIN connectedClients |-> [to |-> connectedClients[i].id, msg |-> message]]

\* history of the latest session: its totalNotes, the note_played messages it
\* received, whether a tempo command reached it, the sync_stop broadcasts made
\* for it, playedNotes when it stopped, what stopped it ("command", "grace",
\* "silence", or "stale" for a timer armed in an earlier session) and when,
\* and when a note_played made playedNotes equal to totalNotes (-1: not yet)
NoHist == [total |-> 0, notes |-> 0, ctl |-> FALSE, stops |-> 0, playedAtStop |-> 0,
           stoppedBy |-> "none", stoppedAt |-> -1, completedAt |-> -1]

\* the state after construction, for a set of catalogs loadSongs may find
InitWith(catalogs) ==
    /\ now = 0
    /\ songs \in catalogs
    /\ connectedClients = << >>
    /\ currentSession = null
    /\ systemStatus = [isPlaying |-> FALSE, currentSong |-> NullStr, bpm |-> DefaultBpm]
    /\ silenceTimeout = null
    /\ lastNoteTime = null
    /\ timers = {}
    /\ timerSeq = 0
    /\ outbox = << >>
    /\ dev = [d \in Clients |-> InitCore]
    /\ sessionSeq = 0
    /\ hist = NoHist
    /\ lastOp = [op |-> "init"]

Init == InitWith({Catalog, << >>})

\* a clearTimeout that cancels the wrong timers: all but the one named
clearTimeoutOthers(handle, pending) == {t \in pending : [id |-> t.id] = handle}

\* a clearTimeout that cancels nothing
clearTimeoutIgnored(handle, pending) == pending

\* clearTimeout(handle)
clearTimeout(handle, pending) == {t \in pending : [id |-> t.id] # handle}

\* wss.on('connection'): register the socket and greet it
Connect(c) ==
    /\ c \notin ClientIds
    /\ now >= TimeOrigin[c]
    /\ connectedClients' = Append(connectedClients,
            [id |-> c, type |-> NullStr, ready |-> FALSE, latency |-> 0])
    /\ outbox' = << [to |-> c, msg |-> [type |-> "welcome", clientId |-> c,
                                          serverTime |-> now]] >>
    /\ lastOp' = [op |-> "connect"]
    /\ UNCHANGED <<now, songs, currentSession, systemStatus, silenceTimeout,
                   lastNoteTime, timers, timerSeq, sessionSeq, hist>>

\* a coordinator whose session belongs to its connections: closing the last
\* one ends the session
CloseLastEndsSession(c) ==
    /\ c \in ClientIds
    /\ connectedClients' = SelectSeq(connectedClients, LAMBDA e : e.id # c)
    /\ outbox' = << >>
    /\ lastOp' = [op |-> "close"]
    /\ IF ClientIds = {c} /\ currentSession # null
       THEN /\ currentSession' = null
            /\ systemStatus' = [systemStatus EXCEPT !.isPlaying = FALSE,
                                                    !.currentSong = NullStr]
       ELSE UNCHANGED <<currentSession, systemStatus>>
    /\ UNCHANGED <<now, songs, silenceTimeout, lastNoteTime, timers, timerSeq,
                   sessionSeq, hist>>

\* ws.on('close')
Close(c) ==
    /\ c \in ClientIds
    /\ connectedClients' = SelectSeq(connectedClients, LAMBDA e : e.id # c)
    /\ outbox' = << >>
    /\ lastOp' = [op |-> "close"]
    /\ UNCHANGED <<now, songs, currentSession, systemStatus, silenceTimeout,
                   lastNoteTime, timers, timerSeq, sessionSeq, hist>>

\* a coordinator that closes the connection on an undecodable message
MalformedDropsConnection(c) ==
    /\ c \in ClientIds
    /\ connectedClients' = SelectSeq(connectedClients, LAMBDA e : e.id # c)
    /\ outbox' = << >>
    /\ lastOp' = [op |-> "malformed"]
    /\ UNCHANGED <<now, songs, currentSession, systemStatus, silenceTimeout,
                   lastNoteTime, timers, timerSeq, sessionSeq, hist>>

\* ws.on('message') with a payload JSON.parse rejects, or a decoded value
\* whose .type cannot be read: the exception is caught and logged
Malformed(c) ==
    /\ c \in ClientIds
    /\ outbox' = << >>
    /\ lastOp' = [op |-> "malformed"]
    /\ UNCHANGED <<now, serverVars, sessionSeq, hist>>

\* the elapsedTime of the catch-up sync_start: (currentTime - startTime) / 1000
CatchUpElapsed(session, currentTime) ==
    NumDiv(Int2Num(currentTime - session.startTime), Int2Num(1000))

\* JSON.stringify of a number: a finite number is written out, NaN and the
\* infinities become null
JsonNumber(x) == IF IsFinite(x) THEN x ELSE null

\* a coordinator that stamps the pong with its own clock only
PingRestamped(c, timestamp) ==
    /\ c \in ClientIds
    /\ outbox' = << [to |-> c, msg |-> [type |-> "pong",
                                        timestamp |-> JsonNumber(Int2Num(now)),
                                        serverTime |-> now]] >>
    /\ lastOp' = [op |-> "ping", client |-> c, timestamp |-> timestamp]
    /\ UNCHANGED <<now, serverVars, sessionSeq, hist>>

\* handleClientMessage, case 'ping'
Ping(c, timestamp) ==
    /\ c \in ClientIds
    /\ outbox' = << [to |-> c, msg |-> [type |-> "pong",
                                        timestamp |-> JsonNumber(timestamp),
                                        serverTime |-> now]] >>
    /\ lastOp' = [op |-> "ping", client |-> c, timestamp |-> timestamp]
    /\ UNCHANGED <<now, serverVars, sessionSeq, hist>>

\* a coordinator that announces the catch-up to every connection
RegisterBroadcasts(c, clientType) ==
    /\ c \in ClientIds
    /\ connectedClients' = [connectedClients EXCEPT ![ClientIndex(c)].type = clientType]
    /\ outbox' = IF currentSession # null /\ systemStatus.isPlaying
                 THEN broadcastToAll([type |-> "sync_start",
                                      song |-> currentSession.songId,
                                      startTime |-> currentSession.startTime,
                                      bpm |-> currentSession.bpm,
                                      serverTime |-> now,
                                      elapsedTime |-> CatchUpElapsed(currentSession, now)])
                 ELSE << >>
    /\ lastOp' = [op |-> "register"]
    /\ UNCHANGED <<now, songs, currentSession, systemStatus, silenceTimeout,
                   lastNoteTime, timers, timerSeq, sessionSeq, hist>>

\* handleClientMessage, case 'register'
Register(c, clientType) ==
    /\ c \in ClientIds
    /\ connectedClients' = [connectedClients EXCEPT ![ClientIndex(c)].type = clientType]
    /\ outbox' = IF currentSession # null /\ systemStatus.isPlaying
                 THEN << [to |-> c,
                          msg |-> [type |-> "sync_start",
                                   song |-> currentSession.songId,
                                   startTime |-> currentSession.startTime,
                                   bpm |-> currentSession.bpm,
                                   serverTime |-> now,
                                   elapsedTime |-> CatchUpElapsed(currentSession, now)]] >>
                 ELSE << >>
    /\ lastOp' = [op |-> "register"]
    /\ UNCHANGED <<now, songs, currentSession, systemStatus, silenceTimeout,
                   lastNoteTime, timers, timerSeq, sessionSeq, hist>>

\* a coordinator that forgets to count the note
CountNoteForgotten(session) == session

\* playedNotes++
CountNote(session) == [session EXCEPT !.playedNotes = @ + 1]

\* a coordinator that never recognises the last note
AllNotesPlayedNever(session) == FALSE

\* a coordinator that tests playedNotes > totalNotes
AllNotesPlayedStrict(session) == session.playedNotes > session.totalNotes

\* if (playedNotes >= totalNotes): every note of the score has been played
AllNotesPlayed(session) == session.playedNotes >= session.totalNotes

\* setTimeout(callback, delay): the pending callback
NewTimer(kind, delay) ==
    [id |-> timerSeq + 1, kind |-> kind, due |-> now + delay, sid |-> sessionSeq]

\* a coordinator whose stopPerformance() drops the session and leaves
\* systemStatus as it was
stopPerformanceKeepsStatus(by) ==
    IF currentSession = null
    THEN /\ outbox' = << >>
         /\ UNCHANGED <<currentSession, systemStatus, hist>>
    ELSE /\ outbox' = broadcastToAll([type |-> "sync_stop", serverTime |-> now])
         /\ currentSession' = null
         /\ systemStatus' = systemStatus
         /\ hist' = [hist EXCEPT !.stops = @ + 1,
                                  !.playedAtStop = currentSession.playedNotes,
                                  !.stoppedBy = by,
                                  !.stoppedAt = now]

\* a coordinator whose stopPerformance() broadcasts sync_stop even when idle
stopPerformanceUnguarded(by) ==
    IF currentSession = null
    THEN /\ outbox' = broadcastToAll([type |-> "sync_stop", serverTime |-> now])
         /\ UNCHANGED <<currentSession, systemStatus, hist>>
    ELSE /\ outbox' = broadcastToAll([type |-> "sync_stop", serverTime |-> now])
         /\ currentSession' = null
         /\ systemStatus' = [systemStatus EXCEPT !.isPlaying = FALSE,
                                                 !.currentSong = NullStr]
         /\ hist' = [hist EXCEPT !.stops = @ + 1,
                                  !.playedAtStop = currentSession.playedNotes,
                                  !.stoppedBy = by,
                                  !.stoppedAt = now]

\* stopPerformance(): no-op when idle, else broadcast sync_stop and drop the session
stopPerformance(by) ==
    IF currentSession = null
    THEN /\ outbox' = << >>
         /\ UNCHANGED <<currentSession, systemStatus, hist>>
    ELSE /\ outbox' = broadcastToAll([type |-> "sync_stop", serverTime |-> now])
         /\ currentSession' = null
         /\ systemStatus' = [systemStatus EXCEPT !.isPlaying = FALSE,
                                                 !.currentSong = NullStr]
         /\ hist' = [hist EXCEPT !.stops = @ + 1,
                                  !.playedAtStop = currentSession.playedNotes,
                                  !.stoppedBy = by,
                                  !.stoppedAt = now]

\* a coordinator that arms the watchdog for a note received while idle
NotePlayedArmsWhileIdle(c) ==
    /\ c \in ClientIds
    /\ timerSeq < MaxTimers
    /\ outbox' = << >>
    /\ lastOp' = [op |-> "note_played"]
    /\ IF currentSession = null
       THEN /\ lastNoteTime' = now
            /\ timerSeq' = timerSeq + 1
            /\ timers' = timers \cup {NewTimer("silence", maxSilenceDuration)}
            /\ silenceTimeout' = [id |-> timerSeq + 1]
            /\ UNCHANGED <<currentSession, hist>>
       ELSE LET session == CountNote(currentSession)
                cleared == IF silenceTimeout # null
                           THEN clearTimeout(silenceTimeout, timers)
                           ELSE timers
            IN  /\ currentSession' = session
                /\ lastNoteTime' = now
                /\ timerSeq' = timerSeq + 1
                /\ IF AllNotesPlayed(session)
                   THEN /\ timers' = cleared \cup {NewTimer("grace", GracePeriod)}
                        /\ UNCHANGED silenceTimeout
                   ELSE /\ timers' = cleared \cup {NewTimer("silence", maxSilenceDuration)}
                        /\ silenceTimeout' = [id |-> timerSeq + 1]
                /\ hist' = [hist EXCEPT !.notes = @ + 1,
                                         !.completedAt =
                                             IF session.playedNotes = session.totalNotes
                                             THEN now ELSE @]
    /\ UNCHANGED <<now, songs, connectedClients, systemStatus, sessionSeq>>

\* handleClientMessage, case 'note_played'
NotePlayed(c) ==
    /\ c \in ClientIds
    /\ currentSession # null => timerSeq < MaxTimers
    /\ outbox' = << >>
    /\ lastOp' = [op |-> "note_played"]
    /\ IF currentSession = null
       THEN UNCHANGED <<currentSession, lastNoteTime, silenceTimeout, timers,
                        timerSeq, hist>>
       ELSE LET session == CountNote(currentSession)
                cleared == IF silenceTimeout # null
                           THEN clearTimeout(silenceTimeout, timers)
                           ELSE timers
            IN  /\ currentSession' = session
                /\ lastNoteTime' = now
                /\ timerSeq' = timerSeq + 1
                /\ IF AllNotesPlayed(session)
                   THEN /\ timers' = cleared \cup {NewTimer("grace", GracePeriod)}
                        /\ UNCHANGED silenceTimeout
                   ELSE /\ timers' = cleared \cup {NewTimer("silence", maxSilenceDuration)}
                        /\ silenceTimeout' = [id |-> timerSeq + 1]
                /\ hist' = [hist EXCEPT !.notes = @ + 1,
                                         !.completedAt =
                                             IF session.playedNotes = session.totalNotes
                                             THEN now ELSE @]
    /\ UNCHANGED <<now, songs, connectedClients, systemStatus, sessionSeq>>

\* startPerformance(songId, bpm)
Start(songId, bpm) ==
    /\ sessionSeq < MaxSessions
    /\ IF songs = << >>
       THEN \* song is undefined: song.melody throws before anything is changed
            /\ outbox' = << >>
            /\ lastOp' = [op |-> "start_threw"]
            /\ UNCHANGED <<currentSession, systemStatus, silenceTimeout,
                           lastNoteTime, timers, sessionSeq, hist>>
       ELSE LET song == FindSong(songId)
                totalNotes == song.melody + song.accompaniment
            IN  /\ lastNoteTime' = now
                /\ timers' = IF silenceTimeout # null
                             THEN clearTimeout(silenceTimeout, timers)
                             ELSE timers
                /\ silenceTimeout' = null
                /\ currentSession' = [songId |-> song.id, startTime |-> now,
                                      totalNotes |-> totalNotes, playedNotes |-> 0,
                                      bpm |-> bpm, status |-> "playing"]
                /\ systemStatus' = [isPlaying |-> TRUE, currentSong |-> song.id,
                                    bpm |-> bpm]
                /\ outbox' = broadcastToAll([type |-> "sync_start", song |-> song.id,
                                             startTime |-> now, bpm |-> bpm,
                                             serverTime |-> now,
                                             elapsedTime |-> Int2Num(0)])
                /\ sessionSeq' = sessionSeq + 1
                /\ hist' = [NoHist EXCEPT !.total = totalNotes]
                /\ lastOp' = [op |-> "start", songId |-> songId, bpm |-> bpm,
                              replaced |-> currentSession # null]
    /\ UNCHANGED <<now, songs, connectedClients, timerSeq>>

\* handleControlMessage 'stop' / POST /api/stop / the stop button
Stop ==
    /\ stopPerformance("command")
    /\ lastOp' = [op |-> "stop"]
    /\ UNCHANGED <<now, songs, connectedClients, silenceTimeout, lastNoteTime,
                   timers, timerSeq, sessionSeq>>

\* a coordinator whose changeTempo() does not look for a session first
TempoWhileIdle(newBpm) ==
    /\ \A d \in ClientIds : Len(dev[d].tempoChanges) < MaxTempoChanges
    /\ IF currentSession # null
       THEN /\ currentSession' = [currentSession EXCEPT !.bpm = newBpm]
            /\ hist' = [hist EXCEPT !.ctl = TRUE]
       ELSE UNCHANGED <<currentSession, hist>>
    /\ systemStatus' = [systemStatus EXCEPT !.bpm = newBpm]
    /\ outbox' = broadcastToAll([type |-> "tempo_change", bpm |-> newBpm,
                                 serverTime |-> now])
    /\ lastOp' = [op |-> "tempo", bpm |-> newBpm]
    /\ UNCHANGED <<now, songs, connectedClients, silenceTimeout, lastNoteTime,
                   timers, timerSeq, sessionSeq>>

\* a coordinator that restarts the session clock on a tempo command
TempoRestartsClock(newBpm) ==
    /\ \A d \in ClientIds : Len(dev[d].tempoChanges) < MaxTempoChanges
    /\ IF currentSession # null
       THEN /\ currentSession' = [currentSession EXCEPT !.bpm = newBpm,
                                                        !.startTime = now]
            /\ systemStatus' = [systemStatus EXCEPT !.bpm = newBpm]
            /\ outbox' = broadcastToAll([type |-> "tempo_change", bpm |-> newBpm,
                                         serverTime |-> now])
            /\ hist' = [hist EXCEPT !.ctl = TRUE]
       ELSE /\ outbox' = << >>
            /\ UNCHANGED <<currentSession, systemStatus, hist>>
    /\ lastOp' = [op |-> "tempo", bpm |-> newBpm]
    /\ UNCHANGED <<now, songs, connectedClients, silenceTimeout, lastNoteTime,
                   timers, timerSeq, sessionSeq>>

\* changeTempo(newBpm)
Tempo(newBpm) ==
    /\ \A d \in ClientIds : Len(dev[d].tempoChanges) < MaxTempoChanges
    /\ IF currentSession # null
       THEN /\ currentSession' = [currentSession EXCEPT !.bpm = newBpm]
            /\ systemStatus' = [systemStatus EXCEPT !.bpm = newBpm]
            /\ outbox' = broadcastToAll([type |-> "tempo_change", bpm |-> newBpm,
                                         serverTime |-> now])
            /\ hist' = [hist EXCEPT !.ctl = TRUE]
       ELSE /\ outbox' = << >>
            /\ UNCHANGED <<currentSession, systemStatus, hist>>
    /\ lastOp' = [op |-> "tempo", bpm |-> newBpm]
    /\ UNCHANGED <<now, songs, connectedClients, silenceTimeout, lastNoteTime,
                   timers, timerSeq, sessionSeq>>

\* a pending setTimeout callback runs: both kinds call stopPerformance()
TimerFire(t) ==
    /\ t \in timers
    /\ t.due <= now
    /\ timers' = timers \ {t}
    /\ stopPerformance(IF t.sid = sessionSeq THEN t.kind ELSE "stale")
    /\ lastOp' = [op |-> "timer"]
    /\ UNCHANGED <<now, songs, connectedClients, silenceTimeout, lastNoteTime,
                   timerSeq, sessionSeq>>

\* time passes, but not beyond a pending timer
Advance(d) ==
    /\ d > 0
    /\ now + d <= MaxTime
    /\ \A t \in timers : now + d <= t.due
    /\ now' = now + d
    /\ outbox' = << >>
    /\ lastOp' = [op |-> "advance"]
    /\ UNCHANGED <<serverVars, sessionSeq, hist>>

\* how far time may jump: a fixed step, or up to a pending timer
Delays == TimeSteps \cup {t.due - now : t \in timers}

\* the coordinator alone (devices are not modelled), with one connection and
\* the default tempo
ServerClients == {2}

ServerBpms == {DefaultBpm}

NextServer ==
    \/ \E c \in ServerClients : Connect(c) /\ UNCHANGED dev
    \/ \E c \in ServerClients : Close(c) /\ UNCHANGED dev
    \/ \E c \in ServerClients, ty \in ClientTypes : Register(c, ty) /\ UNCHANGED dev
    \/ \E c \in ServerClients : NotePlayed(c) /\ UNCHANGED dev
    \/ \E id \in SongIds, bpm \in ServerBpms : Start(id, bpm) /\ UNCHANGED dev
    \/ Stop /\ UNCHANGED dev
    \/ \E bpm \in ServerBpms : Tempo(bpm) /\ UNCHANGED dev
    \/ \E t \in timers : TimerFire(t) /\ UNCHANGED dev
    \/ \E d \in Delays : Advance(d) /\ UNCHANGED dev

SpecServer == Init /\ [][NextServer]_vars

---------------------------------------------------------------------------
(* The coordinator with two connections, commands with either tempo, and   *)
(* undecodable messages                                                    *)

\* Registration next to a running session: two connections, one score,
\* notes and timers as in the coordinator, no devices attached.
RegistrySong == "solo"

\* the clock readings a ping carries: a whole and a fractional millisecond
PingTimestamps == {Int2Num(0), Num(12345, 10)}

NextRegistry ==
    \/ \E c \in Clients : Connect(c) /\ UNCHANGED dev
    \/ \E c \in Clients : Close(c) /\ UNCHANGED dev
    \/ \E c \in Clients, ty \in ClientTypes : Register(c, ty) /\ UNCHANGED dev
    \/ \E c \in Clients, ts \in PingTimestamps : Ping(c, ts) /\ UNCHANGED dev
    \/ \E c \in Clients : NotePlayed(c) /\ UNCHANGED dev
    \/ Start(RegistrySong, DefaultBpm) /\ UNCHANGED dev
    \/ Stop /\ UNCHANGED dev
    \/ \E t \in timers : TimerFire(t) /\ UNCHANGED dev
    \/ \E d \in Delays : now + d <= MaxSyncTime /\ Advance(d) /\ UNCHANGED dev

SpecRegistry == Init /\ [][NextRegistry]_vars

\* The silence watchdog over a score of three notes played by two devices.
WatchdogCatalog == << [id |-> "trio", melody |-> 2, accompaniment |-> 1] >>

InitWatchdog == InitWith({WatchdogCatalog})

NextWatchdog ==
    \/ \E c \in Clients : Connect(c) /\ UNCHANGED dev
    \/ \E c \in Clients : NotePlayed(c) /\ UNCHANGED dev
    \/ Start("trio", DefaultBpm) /\ UNCHANGED dev
    \/ Stop /\ UNCHANGED dev
    \/ Tempo(DefaultBpm) /\ UNCHANGED dev
    \/ \E t \in timers : TimerFire(t) /\ UNCHANGED dev
    \/ \E d \in Delays : Advance(d) /\ UNCHANGED dev

SpecWatchdog == InitWatchdog /\ [][NextWatchdog]_vars

ControlBpms == {60, 120}

ControlSongs == {"solo", "nosuch"}

NextControl ==
    \/ \E c \in Clients : Connect(c) /\ UNCHANGED dev
    \/ \E c \in Clients : Close(c) /\ UNCHANGED dev
    \/ \E c \in Clients : Malformed(c) /\ UNCHANGED dev
    \/ \E c \in Clients : NotePlayed(c) /\ UNCHANGED dev
    \/ \E id \in ControlSongs, bpm \in ControlBpms : Start(id, bpm) /\ UNCHANGED dev
    \/ Stop /\ UNCHANGED dev
    \/ \E bpm \in ControlBpms : Tempo(bpm) /\ UNCHANGED dev
    \/ \E t \in timers : TimerFire(t) /\ UNCHANGED dev
    \/ \E d \in Delays : now + d <= MaxSyncTime /\ Advance(d) /\ UNCHANGED dev

SpecControl == Init /\ [][NextControl]_vars

---------------------------------------------------------------------------
(* The coordinator when ws.send() can throw.  `failing` is the set of       *)
(* connections whose send throws during one broadcast: broadcastToAll has   *)
(* no try/catch, so forEach ends at the first of them and the exception     *)
(* leaves broadcastToAll and the method that called it.                    *)

\* the sends broadcastToAll(message) completes before the first throwing one
sendsBeforeThrow(message, failing) ==
    LET all == broadcastToAll(message)
        bad == {i \in DOMAIN all : all[i].to \in failing}
    IN  IF bad = {} THEN all ELSE SubSeq(all, 1, Min(bad) - 1)

\* whether broadcastToAll throws
broadcastThrows(failing) == ClientIds \cap failing # {}

\* startPerformance(songId, bpm): the session is set up before the broadcast
StartThrowing(songId, bpm, failing) ==
    /\ sessionSeq < MaxSessions
    /\ IF songs = << >>
       THEN /\ outbox' = << >>
            /\ lastOp' = [op |-> "start_threw"]
            /\ UNCHANGED <<currentSession, systemStatus, silenceTimeout,
                           lastNoteTime, timers, sessionSeq, hist>>
       ELSE LET song == FindSong(songId)
                totalNotes == song.melody + song.accompaniment
            IN  /\ lastNoteTime' = now
                /\ timers' = IF silenceTimeout # null
                             THEN clearTimeout(silenceTimeout, timers)
                             ELSE timers
                /\ silenceTimeout' = null
                /\ currentSession' = [songId |-> song.id, startTime |-> now,
                                      totalNotes |-> totalNotes, playedNotes |-> 0,
                                      bpm |-> bpm, status |-> "playing"]
                /\ systemStatus' = [isPlaying |-> TRUE, currentSong |-> song.id,
                                    bpm |-> bpm]
                /\ outbox' = sendsBeforeThrow([type |-> "sync_start", song |-> song.id,
                                               startTime |-> now, bpm |-> bpm,
                                               serverTime |-> now,
                                               elapsedTime |-> Int2Num(0)], failing)
                /\ sessionSeq' = sessionSeq + 1
                /\ hist' = [NoHist EXCEPT !.total = totalNotes]
                /\ lastOp' = [op |-> "start", failing |-> failing, broadcast |-> TRUE,
                              threw |-> broadcastThrows(failing)]
    /\ UNCHANGED <<now, songs, connectedClients, timerSeq>>

\* stopPerformance(): the broadcast comes first, so when it throws the
\* session is not cleared
StopThrowing(failing) ==
    /\ IF currentSession = null
       THEN /\ outbox' = << >>
            /\ UNCHANGED <<currentSession, systemStatus, hist>>
       ELSE /\ outbox' = sendsBeforeThrow([type |-> "sync_stop", serverTime |-> now],
                                          failing)
            /\ IF broadcastThrows(failing)
               THEN UNCHANGED <<currentSession, systemStatus, hist>>
               ELSE /\ currentSession' = null
                    /\ systemStatus' = [systemStatus EXCEPT !.isPlaying = FALSE,
                                                            !.currentSong = NullStr]
                    /\ hist' = [hist EXCEPT !.stops = @ + 1,
                                             !.playedAtStop = currentSession.playedNotes,
                                             !.stoppedBy = "command",
                                             !.stoppedAt = now]
    /\ lastOp' = [op |-> "stop", failing |-> failing,
                  broadcast |-> currentSession # null,
                  threw |-> currentSession # null /\ broadcastThrows(failing)]
    /\ UNCHANGED <<now, songs, connectedClients, silenceTimeout, lastNoteTime,
                   timers, timerSeq, sessionSeq>>

\* changeTempo(newBpm): the bpm is stored before the broadcast
TempoThrowing(newBpm, failing) ==
    /\ IF currentSession # null
       THEN /\ currentSession' = [currentSession EXCEPT !.bpm = newBpm]
            /\ systemStatus' = [systemStatus EXCEPT !.bpm = newBpm]
            /\ outbox' = sendsBeforeThrow([type |-> "tempo_change", bpm |-> newBpm,
                                           serverTime |-> now], failing)
            /\ hist' = [hist EXCEPT !.ctl = TRUE]
       ELSE /\ outbox' = << >>
            /\ UNCHANGED <<currentSession, systemStatus, hist>>
    /\ lastOp' = [op |-> "tempo", failing |-> failing,
                  broadcast |-> currentSession # null,
                  threw |-> currentSession # null /\ broadcastThrows(failing)]
    /\ UNCHANGED <<now, songs, connectedClients, silenceTimeout, lastNoteTime,
                   timers, timerSeq, sessionSeq>>

NextThrowing ==
    \/ \E c \in Clients : Connect(c) /\ UNCHANGED dev
    \/ \E c \in Clients : Close(c) /\ UNCHANGED dev
    \/ \E id \in ControlSongs, bpm \in ControlBpms, failing \in SUBSET Clients :
           StartThrowing(id, bpm, failing) /\ UNCHANGED dev
    \/ \E failing \in SUBSET Clients : StopThrowing(failing) /\ UNCHANGED dev
    \/ \E bpm \in ControlBpms, failing \in SUBSET Clients :
           TempoThrowing(bpm, failing) /\ UNCHANGED dev
    \/ \E d \in TimeSteps : now + d <= MaxSyncTime /\ Advance(d) /\ UNCHANGED dev

SpecThrowing == Init /\ [][NextThrowing]_vars

---------------------------------------------------------------------------
(* One device handling whatever the connection delivers *)

Device == 1

ElapsedTimes == {Num(e, 1000) : e \in {0, 5000}}

\* the messages that drive the music-time calculator, for every tempo
CalcMessages ==
    [type : {"sync_start"}, song : {"demo"}, bpm : BpmValues, elapsedTime : ElapsedTimes]
    \cup [type : {"tempo_change"}, bpm : BpmValues]
    \cup [type : {"sync_stop"}]

\* every message type handleServerMessage knows, and one it does not
DeviceBpms == {60, 120}

AllMessages ==
    [type : {"sync_start"}, song : {"demo"}, bpm : DeviceBpms, elapsedTime : ElapsedTimes]
    \cup [type : {"tempo_change"}, bpm : DeviceBpms]
    \cup [type : {"sync_resume"}, song : {"demo"}, bpm : {DefaultBpm},
          startTime : {5000}, elapsedTime : {Int2Num(5)}]
    \cup [type : {"pong"}, timestamp : {getCurrentTime(Device, now)}, serverTime : {now}]
    \cup [type : {"sync_stop", "sync_pause", "song_data"}]
    \cup [type : {"welcome"}, clientId : {Device}]

\* ws.onmessage: the device handles one message
Receive(d, data) ==
    /\ now >= TimeOrigin[d]
    /\ data.type = "tempo_change" => Len(dev[d].tempoChanges) < MaxTempoChanges
    /\ dev' = [dev EXCEPT ![d] = handleServerMessage(dev[d], data, d, now)]
    /\ outbox' = << >>
    /\ lastOp' = [op |-> "receive", type |-> data.type, data |-> data]
    /\ UNCHANGED <<now, serverVars, sessionSeq, hist>>

NextCalc ==
    \/ \E data \in CalcMessages : Receive(Device, data)
    \/ \E d \in TimeSteps : Advance(d) /\ UNCHANGED dev

SpecCalc == Init /\ [][NextCalc]_vars

\* The PianoSyncCore of public/js/piano-sync.js, which keeps one tempo
\* (this.bpm, held in the currentBpm field) and no tempo history.

\* handleSyncStart(data), with startPerformance() setting the playing flag
\* when a song is named
handleSyncStartSimple(core, data, currentTime) ==
    [core EXCEPT !.currentSong = data.song,
                 !.currentBpm = data.bpm,
                 !.startTime = IF IsLateJoin(data)
                               THEN NumSub(Int2Num(currentTime),
                                           NumMul(data.elapsedTime, Int2Num(1000)))
                               ELSE Int2Num(currentTime),
                 !.isPlaying = IF data.song = NullStr THEN @ ELSE TRUE]

\* handleSyncStop(data)
handleSyncStopSimple(core) ==
    [core EXCEPT !.isPlaying = FALSE,
                 !.currentSong = NullStr,
                 !.startTime = Int2Num(0)]

\* handleTempoChange(data): only the tempo is stored
handleTempoChangeSimple(core, data) == [core EXCEPT !.currentBpm = data.bpm]

\* getMusicTime(): (currentTime - startTime) / 1000, 0 when negative
getMusicTimeSimple(core, currentTime) ==
    IF ~core.isPlaying \/ Falsy(core.startTime)
    THEN Int2Num(0)
    ELSE LET musicTime ==
                 NumDiv(NumSub(Int2Num(currentTime), core.startTime), Int2Num(1000))
         IN  IF NumLt(musicTime, Int2Num(0)) THEN Int2Num(0) ELSE musicTime

\* handleServerMessage(data) of that core
handleServerMessageSimple(core, data, currentTime) ==
    CASE data.type = "sync_start" -> handleSyncStartSimple(core, data, currentTime)
      [] data.type = "sync_stop" -> handleSyncStopSimple(core)
      [] data.type = "tempo_change" -> handleTempoChangeSimple(core, data)
      [] OTHER -> core

\* Both cores on one page, reading the same clock and handed the same
\* messages: the tempo-aware core in slot Device, the simple one in Simple.
Simple == 2

VariantMessages ==
    [type : {"sync_start"}, song : {"demo"}, bpm : DeviceBpms, elapsedTime : ElapsedTimes]
    \cup [type : {"tempo_change"}, bpm : DeviceBpms]
    \cup [type : {"sync_stop"}]

ReceiveBoth(data) ==
    /\ now >= TimeOrigin[Device]
    /\ data.type = "tempo_change" => Len(dev[Device].tempoChanges) < MaxTempoChanges
    /\ dev' = [dev EXCEPT
                  ![Device] = handleServerMessage(dev[Device], data, Device, now),
                  ![Simple] = handleServerMessageSimple(dev[Simple], data,
                                                        getCurrentTime(Device, now))]
    /\ outbox' = << >>
    /\ lastOp' = [op |-> "receive", type |-> data.type, data |-> data]
    /\ UNCHANGED <<now, serverVars, sessionSeq, hist>>

NextVariants ==
    \/ \E data \in VariantMessages : ReceiveBoth(data)
    \/ \E d \in TimeSteps : Advance(d) /\ UNCHANGED dev

SpecVariants == Init /\ [][NextVariants]_vars

NextDevice ==
    \/ \E data \in AllMessages : Receive(Device, data)
    \/ \E d \in TimeSteps : Advance(d) /\ UNCHANGED dev

SpecDevice == Init /\ [][NextDevice]_vars

---------------------------------------------------------------------------
(* One device and its connection: opening, closing, reconnecting, the      *)
(* latency pings and the messages that arrive while the socket is open      *)

\* a step of device d alone, leaving it in state core
DeviceStep(d, core, op) ==
    /\ now >= TimeOrigin[d]
    /\ dev' = [dev EXCEPT ![d] = core]
    /\ outbox' = << >>
    /\ lastOp' = [op |-> op]
    /\ UNCHANGED <<now, serverVars, sessionSeq, hist>>

\* initialize(): the first connectWebSocket()
Initialize(d) ==
    /\ dev[d].ws = "none"
    /\ DeviceStep(d, connectWebSocket(dev[d]), "initialize")

\* ws.onopen fires
Open(d) ==
    /\ dev[d].ws = "connecting"
    /\ DeviceStep(d, onopen(dev[d]), "onopen")

\* ws.onclose fires: the attempt failed, the connection dropped, or close()
\* has completed
Closed(d) ==
    /\ dev[d].ws \in {"connecting", "open", "closing"}
    /\ DeviceStep(d, onclose(dev[d], now), "onclose")

\* the reconnection timer fires
Reconnect(d) ==
    /\ dev[d].reconnectDue >= 0
    /\ dev[d].reconnectDue <= now
    /\ DeviceStep(d, connectWebSocket(dev[d]), "reconnect")

\* the application calls disconnect()
Disconnect(d) ==
    /\ dev[d].ws # "none"
    /\ DeviceStep(d, disconnect(dev[d]), "disconnect")

\* the setInterval of initialize() calls measureLatency()
MeasureLatency(d) ==
    /\ dev[d].ws # "none"
    /\ getCurrentTime(d, now) > 0
    /\ getCurrentTime(d, now) % latencyMeasureInterval = 0
    /\ DeviceStep(d, measureLatency(dev[d], getCurrentTime(d, now)), "measureLatency")

\* the pongs that can arrive: one for a ping not answered yet, stamped by the
\* coordinator at a time between the ping and now
Pongs(d) ==
    UNION {{[type |-> "pong", timestamp |-> p, serverTime |-> st] :
                st \in {p + TimeOrigin[d], now}} : p \in dev[d].pings}

\* ws.onmessage with a pong
Pong(d, data) ==
    /\ dev[d].ws = "open"
    /\ now >= TimeOrigin[d]
    /\ dev' = [dev EXCEPT ![d] =
                  [handleServerMessage(dev[d], data, d, now)
                      EXCEPT !.pings = @ \ {data.timestamp}]]
    /\ outbox' = << >>
    /\ lastOp' = [op |-> "pong", timestamp |-> data.timestamp,
                  serverTime |-> data.serverTime]
    /\ UNCHANGED <<now, serverVars, sessionSeq, hist>>

\* the other messages that arrive in this specification
LinkMessages ==
    [type : {"sync_start"}, song : {"demo"}, bpm : {DefaultBpm},
     elapsedTime : {Int2Num(0)}, serverTime : {now}]
    \cup [type : {"tempo_change"}, bpm : {60}]
    \cup [type : {"sync_stop"}]

\* time passes, but not beyond the pending reconnection timer
LinkDelays ==
    TimeSteps \cup {dev[Device].reconnectDue - now}

NextLink ==
    \/ Initialize(Device)
    \/ Open(Device)
    \/ Closed(Device)
    \/ Reconnect(Device)
    \/ Disconnect(Device)
    \/ MeasureLatency(Device)
    \/ \E data \in Pongs(Device) : Pong(Device, data)
    \/ \E data \in LinkMessages : dev[Device].ws = "open" /\ Receive(Device, data)
    \/ \E d \in LinkDelays :
           /\ dev[Device].reconnectDue >= 0 => now + d <= dev[Device].reconnectDue
           /\ Advance(d) /\ UNCHANGED dev

SpecLink == Init /\ [][NextLink]_vars

---------------------------------------------------------------------------
(* The coordinator and the devices, zero network delay: every message the  *)
(* coordinator sends is handled by its device in the same step.  The timers *)
(* are left out: all a timer does is call stopPerformance(), as Stop does.  *)
(* Device 2 stays connected once it has connected; device 1 comes and goes. *)

\* The connection of one device over a time long enough for
\* maxReconnectAttempts reconnection timers to run out.

\* time passes, but not beyond the pending reconnection timer
Wait(d) ==
    /\ d > 0
    /\ now + d <= MaxReconnectTime
    /\ dev[Device].reconnectDue >= 0 => now + d <= dev[Device].reconnectDue
    /\ now' = now + d
    /\ outbox' = << >>
    /\ lastOp' = [op |-> "advance"]
    /\ UNCHANGED <<serverVars, sessionSeq, hist, dev>>

NextReconnect ==
    \/ Initialize(Device)
    \/ Open(Device)
    \/ Closed(Device)
    \/ Reconnect(Device)
    \/ Disconnect(Device)
    \/ \E d \in LinkDelays : Wait(d)

SpecReconnect == Init /\ [][NextReconnect]_vars

Inbox(d, sent) == SelectSeq(sent, LAMBDA e : e.to = d)

RECURSIVE HandleAll(_, _, _, _)
HandleAll(core, msgs, d, t) ==
    IF msgs = << >> THEN core
    ELSE HandleAll(handleServerMessage(core, Head(msgs).msg, d, t), Tail(msgs), d, t)

\* the bpm of the start whose broadcast device d received and whose session
\* it has followed on one connection since; 0 when there is none
FollowedStart(d) ==
    IF lastOp'.op = "start" /\ d \in ClientIds THEN lastOp'.bpm
    ELSE IF d \notin ClientIds' \/ currentSession' = null THEN 0
    ELSE dev[d].followedStart

Deliver ==
    dev' = [d \in Clients |->
               [HandleAll(dev[d], Inbox(d, outbox'), d, now)
                   EXCEPT !.followedStart = FollowedStart(d)]]

SyncBpms == {60, 120}

NextSync ==
    \/ \E c \in Clients : Connect(c) /\ Deliver
    \/ Close(Device) /\ Deliver
    \/ \E c \in Clients : Register(c, "melody") /\ Deliver
    \/ \E bpm \in SyncBpms : Start("demo", bpm) /\ Deliver
    \/ Stop /\ Deliver
    \/ \E bpm \in SyncBpms : Tempo(bpm) /\ Deliver
    \/ \E d \in TimeSteps : now + d <= MaxSyncTime /\ Advance(d) /\ Deliver

SpecSync == Init /\ [][NextSync]_vars

---------------------------------------------------------------------------
(* Properties of the coordinator's session and timers (SpecServer) *)

\* C1: in every reachable state of the coordinator the session's playedNotes
\* is at most its totalNotes.
C1_PlayedNeverExceedsTotal ==
    currentSession # null => currentSession.playedNotes <= currentSession.totalNotes

\* C2: no timer armed while an earlier session existed ever stops a later
\* session.
C2_NoStaleTimerStopsSession == hist.stoppedBy # "stale"

\* C3: a Playing session that has had no note_played for maxSilenceDuration,
\* counted from its start or from its latest note_played, is stopped, with one
\* sync_stop: no Playing session is ever silent for longer than that.
C3_SilenceStopsSession ==
    /\ currentSession # null => now - lastNoteTime <= maxSilenceDuration
    /\ hist.stoppedBy = "silence" => hist.stops = 1

\* C4: once a note_played has made playedNotes equal to totalNotes, the
\* session is Idle and its sync_stop broadcast no later than GracePeriod after
\* that note_played, whatever arrives in between short of a new start.
C4_StoppedWithinGrace ==
    hist.completedAt >= 0 =>
        IF currentSession # null
        THEN /\ now <= hist.completedAt + GracePeriod
             /\ \E t \in timers : /\ t.kind = "grace"
                                  /\ t.due <= hist.completedAt + GracePeriod
        ELSE /\ hist.stops = 1
             /\ hist.stoppedAt <= hist.completedAt + GracePeriod

\* C4's case: the last note, a further note_played during the grace period,
\* then the grace timer stopping the session exactly GracePeriod later
C4_Witness ==
    /\ currentSession = null
    /\ hist.completedAt >= 0
    /\ hist.notes > hist.total
    /\ hist.stoppedBy = "grace"
    /\ hist.stoppedAt = hist.completedAt + GracePeriod

\* C5: a session of N >= 1 notes that has received N note_played messages and
\* no control command stops by itself, with playedNotes = N when it stops and
\* exactly one sync_stop: until it stops its grace timer is pending and no
\* silence watchdog of its own is.
C5_AutoStopExactlyOnce ==
    (hist.total >= 1 /\ hist.notes = hist.total /\ ~hist.ctl
        /\ hist.stoppedBy # "command") =>
        IF currentSession # null
        THEN /\ hist.stops = 0
             /\ \E t \in timers : t.kind = "grace" /\ t.sid = sessionSeq
             /\ ~\E t \in timers : t.kind = "silence" /\ t.sid = sessionSeq
        ELSE /\ hist.stops = 1
             /\ hist.playedAtStop = hist.total
             /\ hist.stoppedBy \in {"grace", "stale"}

\* C5's case: the two-note score, two note_played, stopped by its grace timer
C5_Witness ==
    /\ currentSession = null
    /\ hist.total = 2
    /\ hist.notes = 2
    /\ ~hist.ctl
    /\ hist.stoppedBy = "grace"
    /\ hist.stops = 1
    /\ hist.playedAtStop = 2

\* C11: a stop command received while Idle broadcasts nothing and changes
\* nothing: session, systemStatus, registry and pending timers stay as they
\* were, however often it is repeated.
C11_StopWhileIdleIsNoOp ==
    [][ (lastOp'.op = "stop" /\ currentSession = null)
        => /\ outbox' = << >>
           /\ UNCHANGED <<currentSession, systemStatus, timers, silenceTimeout,
                          lastNoteTime, connectedClients>> ]_vars

\* C11's case: a stop command after the grace timer has already stopped the
\* session, with a connection open and another timer still pending
C11_Witness ==
    /\ lastOp.op = "stop"
    /\ currentSession = null
    /\ hist.stoppedBy = "grace"
    /\ timers # {}
    /\ ClientIds # {}

\* C13: a start with an empty catalog returns a failure result instead of
\* raising, leaves the coordinator Idle and broadcasts no sync_start.
C13_StartWithoutScoreFails ==
    (songs = << >> /\ lastOp.op \in {"start", "start_threw", "start_failed"})
        => /\ lastOp.op = "start_failed"
           /\ currentSession = null
           /\ ~systemStatus.isPlaying
           /\ outbox = << >>

\* C14: once a stop command has made a Playing session Idle, no silence
\* watchdog and no grace timer of that session is pending.
C14_StopLeavesNoTimer ==
    (currentSession = null /\ hist.stoppedBy = "command")
        => ~\E t \in timers : t.sid = sessionSeq

---------------------------------------------------------------------------
(* Properties of the coordinator's commands and registry (SpecControl) *)

\* C12: a tempo command received while Idle broadcasts no tempo_change and
\* changes neither the session (null) nor systemStatus, its bpm included.
C12_TempoWhileIdleIsNoOp ==
    [][ (lastOp'.op = "tempo" /\ currentSession = null)
        => /\ outbox' = << >>
           /\ UNCHANGED <<currentSession, systemStatus>> ]_vars

\* C12's case: Idle, a connection open, and a tempo command whose bpm is not
\* the one systemStatus holds
C12_Witness ==
    /\ lastOp.op = "tempo"
    /\ currentSession = null
    /\ lastOp.bpm # systemStatus.bpm
    /\ ClientIds # {}

\* C24: a tempo command received while Playing keeps the session Playing,
\* sets the session bpm to the new value and sends every open connection one
\* tempo_change carrying it; songId, startTime, totalNotes, playedNotes and
\* the pending timers are unchanged.
C24_TempoWhilePlaying ==
    [][ (lastOp'.op = "tempo" /\ currentSession # null)
        => /\ currentSession' # null
           /\ systemStatus'.isPlaying
           /\ currentSession'.bpm = lastOp'.bpm
           /\ currentSession' = [currentSession EXCEPT !.bpm = lastOp'.bpm]
           /\ currentSession'.songId = currentSession.songId
           /\ currentSession'.startTime = currentSession.startTime
           /\ currentSession'.totalNotes = currentSession.totalNotes
           /\ currentSession'.playedNotes = currentSession.playedNotes
           /\ UNCHANGED <<timers, silenceTimeout, lastNoteTime>>
           /\ Len(outbox') = Len(connectedClients)
           /\ \A c \in ClientIds :
                  Cardinality({i \in DOMAIN outbox' : outbox'[i].to = c}) = 1
           /\ \A i \in DOMAIN outbox' :
                  /\ outbox'[i].msg.type = "tempo_change"
                  /\ outbox'[i].msg.bpm = lastOp'.bpm ]_vars

\* C24's case: Playing for a while with notes counted, a timer pending and
\* both connections open, then a tempo command with a new bpm
C24_Witness ==
    /\ lastOp.op = "tempo"
    /\ currentSession # null
    /\ currentSession.startTime < now
    /\ currentSession.playedNotes > 0
    /\ timers # {}
    /\ Len(outbox) = 2
    /\ lastOp.bpm = 60

\* C16: closing a connection removes exactly that device from the registry,
\* leaves the session, systemStatus and the pending timers as they were, and
\* broadcasts nothing.
C16_CloseLeavesSession ==
    [][ lastOp'.op = "close"
        => /\ \E c \in ClientIds :
                connectedClients' = SelectSeq(connectedClients, LAMBDA e : e.id # c)
           /\ Len(connectedClients') = Len(connectedClients) - 1
           /\ outbox' = << >>
           /\ UNCHANGED <<currentSession, systemStatus, timers, silenceTimeout,
                          lastNoteTime>> ]_vars

\* C16's case: the last remaining connection closed while a session is
\* Playing with a timer pending
C16_Witness ==
    /\ lastOp.op = "close"
    /\ ClientIds = {}
    /\ currentSession # null
    /\ currentSession.playedNotes > 0
    /\ timers # {}

\* C17: the coordinator holds at most one session, with status playing; a
\* start replaces whatever session there was with a fresh one: playedNotes 0,
\* startTime now, bpm from the command and the score the command resolves to
\* (the first catalog score when the id is unknown).
C17_StartReplacesSession ==
    [][ /\ currentSession' # null => currentSession'.status = "playing"
        /\ lastOp'.op = "start"
           => /\ currentSession' # null
              /\ currentSession'.playedNotes = 0
              /\ currentSession'.startTime = now'
              /\ currentSession'.bpm = lastOp'.bpm
              /\ currentSession'.songId =
                     IF \E i \in DOMAIN songs : songs[i].id = lastOp'.songId
                     THEN lastOp'.songId ELSE songs[1].id
              /\ systemStatus'.isPlaying
              /\ hist'.notes = 0 ]_vars

\* C17's case: a start for another score and tempo received while a session
\* that has counted a note (its grace timer is pending) is still Playing
C17_Witness ==
    /\ lastOp.op = "start"
    /\ lastOp.replaced
    /\ lastOp.songId = "solo"
    /\ lastOp.bpm = 60
    /\ \E t \in timers : t.sid < sessionSeq /\ t.kind = "grace"

\* C20: an undecodable message is dropped: session, systemStatus, registry and
\* timers are unchanged and nothing is sent, so the connection stays open and
\* registered for the messages that follow.
C20_MalformedIsDropped ==
    [][ lastOp'.op = "malformed"
        => /\ outbox' = << >>
           /\ UNCHANGED <<currentSession, systemStatus, connectedClients, timers,
                          silenceTimeout, lastNoteTime>> ]_vars

\* C20's case: an undecodable message while a session is Playing, a timer is
\* pending and both connections are open
C20_Witness ==
    /\ lastOp.op = "malformed"
    /\ currentSession # null
    /\ timers # {}
    /\ Cardinality(ClientIds) = 2

---------------------------------------------------------------------------
(* Properties of the silence watchdog (SpecWatchdog) *)

\* C29: every note_played resets the silence watchdog: the watchdog pending
\* in a session is due maxSilenceDuration after the latest note_played, and
\* a session the watchdog stopped was stopped no earlier than
\* maxSilenceDuration after its latest note_played, whichever devices sent
\* the notes.
C29_WatchdogWaitsFullSilence ==
    /\ currentSession # null
       => \A t \in timers :
             t.kind = "silence" => t.due = lastNoteTime + maxSilenceDuration
    /\ hist.stoppedBy = "silence"
       => /\ hist.notes > 0
          /\ hist.stoppedAt - lastNoteTime >= maxSilenceDuration

\* C29's case: two devices connected, two notes 5000 ms apart, and the
\* watchdog stops the session maxSilenceDuration after the second
C29_Witness ==
    /\ hist.stoppedBy = "silence"
    /\ hist.notes = 2
    /\ Cardinality(ClientIds) = 2
    /\ lastNoteTime = 5000
    /\ hist.stoppedAt = lastNoteTime + maxSilenceDuration

\* C30: once a note_played has brought playedNotes to totalNotes, no
\* silence watchdog is pending for as long as the session lasts, and the
\* session is ended by a grace timer or by a stop command, never by the
\* watchdog.  (A timer left over from an earlier session is always a grace
\* timer.)
C30_NoWatchdogAfterCompletion ==
    /\ (currentSession # null /\ hist.completedAt >= 0)
       => \A t \in timers : t.kind # "silence"
    /\ hist.completedAt >= 0
       => hist.stoppedBy \in {"none", "grace", "command", "stale"}
    /\ \A t \in timers : t.sid # sessionSeq => t.kind = "grace"

\* C30's case: the watchdog had been armed by earlier notes, the third note
\* completed the score, and the grace timer ended the session
C30_Witness ==
    /\ hist.completedAt > 0
    /\ hist.notes = 3
    /\ silenceTimeout # null
    /\ hist.stoppedBy = "grace"
    /\ hist.stoppedAt = hist.completedAt + GracePeriod

\* C36: at most one silence-watchdog timer is pending at any time, whatever
\* start, stop and note_played messages arrive: the watchdog armed before is
\* cancelled before another is armed.
C36_OneWatchdogPending ==
    Cardinality({t \in timers : t.kind = "silence"}) <= 1

\* C36's case: a second note has re-armed the watchdog, which is the only
\* one pending and the one silenceTimeout names
C36_Witness ==
    /\ currentSession # null
    /\ hist.notes = 2
    /\ lastOp.op = "note_played"
    /\ \E t \in timers : /\ t.kind = "silence"
                          /\ silenceTimeout = [id |-> t.id]
                          /\ t.id = 2

\* C37: a note_played received while Idle is a no-op: no counter changes, no
\* watchdog or grace timer is armed or cancelled, and nothing is sent.
C37_NoteWhileIdleIsNoOp ==
    [][ (lastOp'.op = "note_played" /\ currentSession = null)
        => /\ outbox' = << >>
           /\ UNCHANGED <<currentSession, systemStatus, connectedClients, timers,
                          timerSeq, silenceTimeout, lastNoteTime, hist>> ]_vars

\* C37's case: after a session has ended, with a timer of that session still
\* pending and two devices connected, a note_played arrives
C37_Witness ==
    /\ lastOp.op = "note_played"
    /\ currentSession = null
    /\ hist.stops = 1
    /\ timers # {}
    /\ Cardinality(ClientIds) = 2

\* C35: systemStatus.isPlaying is true exactly when there is a session (whose
\* status is 'playing'), and systemStatus.currentSong is the session's songId
\* when Playing and null when Idle.
C35_StatusMirrorsSession ==
    /\ systemStatus.isPlaying <=> currentSession # null
    /\ IF currentSession # null
       THEN /\ currentSession.status = "playing"
            /\ systemStatus.currentSong = currentSession.songId
       ELSE systemStatus.currentSong = NullStr

\* C35's case: a second session has been started and then ended by a timer
C35_Witness ==
    /\ sessionSeq = 2
    /\ currentSession = null
    /\ hist.stoppedBy \in {"grace", "silence"}
    /\ ~systemStatus.isPlaying

\* C35's Playing case: a session replaced by a start while it was Playing
C35_WitnessReplaced ==
    /\ lastOp.op = "start"
    /\ lastOp.replaced
    /\ systemStatus.isPlaying

---------------------------------------------------------------------------
(* Properties of registration (SpecRegistry) *)

\* C23: a register message causes no transition of the session.  While
\* Playing it sends exactly one sync_start, to the registering connection
\* and to no other; while Idle it sends nothing.  Session fields and timers
\* are unchanged, and in the registry only the registering device's role
\* may differ.
C23_RegisterIsFrameNeutral ==
    [][ lastOp'.op = "register"
        => /\ currentSession' = currentSession
           /\ systemStatus' = systemStatus
           /\ timers' = timers
           /\ silenceTimeout' = silenceTimeout
           /\ lastNoteTime' = lastNoteTime
           /\ Len(connectedClients') = Len(connectedClients)
           /\ \E c \in ClientIds :
                 /\ \A i \in DOMAIN connectedClients :
                       IF i = ClientIndex(c)
                       THEN connectedClients'[i] =
                                [connectedClients[i] EXCEPT
                                    !.type = connectedClients'[i].type]
                       ELSE connectedClients'[i] = connectedClients[i]
                 /\ IF Playing
                    THEN /\ Len(outbox') = 1
                         /\ outbox'[1].to = c
                         /\ outbox'[1].msg.type = "sync_start"
                    ELSE outbox' = << >> ]_vars

\* C23's case: a device registers while another connection is open, a
\* session is Playing and a timer is pending
C23_Witness ==
    /\ lastOp.op = "register"
    /\ Playing
    /\ Cardinality(ClientIds) = 2
    /\ timers # {}
    /\ Len(outbox) = 1

\* C23's Idle case: a registration with no session sends nothing
C23_WitnessIdle ==
    /\ lastOp.op = "register"
    /\ currentSession = null
    /\ Cardinality(ClientIds) = 2
    /\ outbox = << >>

\* C32: for a ping from a connected device the coordinator sends exactly one
\* pong, to that connection only, carrying the ping's timestamp unchanged;
\* the session, the timers and the registry stay as they were, Idle or
\* Playing.
C32_PingIsEchoed ==
    [][ lastOp'.op = "ping"
        => /\ Len(outbox') = 1
           /\ outbox'[1].to = lastOp'.client
           /\ outbox'[1].msg.type = "pong"
           /\ outbox'[1].msg.timestamp = lastOp'.timestamp
           /\ UNCHANGED <<currentSession, systemStatus, connectedClients,
                          timers, silenceTimeout, lastNoteTime>> ]_vars

\* C32's case: a ping with a fractional timestamp from one of two connected
\* devices, answered later than it was stamped, while a session is Playing
C32_Witness ==
    /\ lastOp.op = "ping"
    /\ lastOp.timestamp = Num(12345, 10)
    /\ Cardinality(ClientIds) = 2
    /\ currentSession # null
    /\ now > 0
    /\ Len(outbox) = 1

---------------------------------------------------------------------------
(* Properties of the broadcast when a send throws (SpecThrowing) *)

\* C15: a broadcast reaches every open connection whose own send does not
\* fail, whatever sends fail before it, and the send error does not leave
\* the broadcast.
C15_BroadcastIsolatesSendErrors ==
    (lastOp.op \in {"start", "stop", "tempo"} /\ lastOp.broadcast)
        => /\ ~lastOp.threw
           /\ \A c \in ClientIds \ lastOp.failing :
                  \E i \in DOMAIN outbox : outbox[i].to = c

\* C31: a send that fails inside the broadcast of a lifecycle event does not
\* touch the session transition: after a stop received while Playing the
\* coordinator is Idle (no session, systemStatus.isPlaying false), and after
\* a start it is Playing, whether or not a send failed.
C31_SendFailureKeepsTransition ==
    /\ (lastOp.op = "stop" /\ lastOp.broadcast)
       => /\ currentSession = null
          /\ ~systemStatus.isPlaying
    /\ lastOp.op = "start"
       => /\ currentSession # null
          /\ systemStatus.isPlaying

\* the start half of C31: the session is set up before the broadcast
C31_StartSurvivesSendFailure ==
    lastOp.op = "start"
       => /\ currentSession # null
          /\ systemStatus.isPlaying

---------------------------------------------------------------------------
(* Properties of the music-time calculator *)

\* getMusicTime() on device d now
MusicTimeNow(d) == getMusicTime(dev[d], getCurrentTime(d, now))

Registered(c) == c \in ClientIds /\ connectedClients[ClientIndex(c)].type # NullStr

\* the sync tolerance in seconds
SyncTolerance == NumDiv(Int2Num(syncThreshold), Int2Num(1000))

Within(a, b, tol) == NumLe(NumSub(a, b), tol) /\ NumLe(NumSub(b, a), tol)

\* C6: at the same instant a device that joined late and a device that has
\* been in the session since its fresh sync_start report music times within
\* the sync tolerance of each other (SpecSync: no network delay, ideal clocks).
C6_LateJoinerAgrees ==
    \A a, b \in Clients :
        (/\ currentSession # null
         /\ Registered(a) /\ dev[a].isPlaying /\ ~dev[a].joinedLate
         /\ Registered(b) /\ dev[b].isPlaying /\ dev[b].joinedLate)
        => Within(MusicTimeNow(a), MusicTimeNow(b), SyncTolerance)

\* C22: the elapsedTime of the catch-up sync_start sent to a device that
\* registers while Playing equals, at that instant, the music time reported
\* by a device that has followed the session since its fresh sync_start,
\* whatever tempo commands preceded the join.
C22_CatchUpCarriesMusicTime ==
    (/\ lastOp.op = "register"
     /\ outbox # << >>
     /\ currentSession # null)
    => \A a \in ClientIds \ {outbox[1].to} :
          (/\ dev[a].isPlaying
           /\ ~dev[a].joinedLate
           /\ NumEq(dev[a].startTime,
                    Int2Num(getCurrentTime(a, currentSession.startTime))))
          => NumEq(outbox[1].msg.elapsedTime, MusicTimeNow(a))

\* C25: within one session the tempo-change log is append-only and strictly
\* increasing in time: a tempo_change handled while playing appends exactly
\* one entry, later than the entry before it; no entry is modified or
\* removed; and only a sync_start or a sync_stop empties the log.
C25_LogAppendOnlyIncreasing ==
    [][ LET old == dev[Device].tempoChanges
            new == dev'[Device].tempoChanges
        IN  /\ (lastOp'.op = "receive" /\ lastOp'.type = "tempo_change"
                    /\ dev[Device].isPlaying)
               => /\ Len(new) = Len(old) + 1
                  /\ SubSeq(new, 1, Len(old)) = old
                  /\ Len(old) > 0 => new[Len(new)].time > old[Len(old)].time
            /\ new # old
               => \/ Len(new) = Len(old) + 1 /\ SubSeq(new, 1, Len(old)) = old
                  \/ /\ new = << >>
                     /\ lastOp'.op = "receive"
                     /\ lastOp'.type \in {"sync_start", "sync_stop"} ]_vars

\* what the log does keep: append-only, never decreasing in time, emptied
\* only by sync_start or sync_stop
C25_LogAppendOnlyNonDecreasing ==
    [][ LET old == dev[Device].tempoChanges
            new == dev'[Device].tempoChanges
        IN  /\ (lastOp'.op = "receive" /\ lastOp'.type = "tempo_change"
                    /\ dev[Device].isPlaying)
               => /\ Len(new) = Len(old) + 1
                  /\ SubSeq(new, 1, Len(old)) = old
                  /\ Len(old) > 0 => new[Len(new)].time >= old[Len(old)].time
            /\ new # old
               => \/ Len(new) = Len(old) + 1 /\ SubSeq(new, 1, Len(old)) = old
                  \/ /\ new = << >>
                     /\ lastOp'.op = "receive"
                     /\ lastOp'.type \in {"sync_start", "sync_stop"} ]_vars

\* C26: handling sync_start{bpm, elapsedTime} at local time t leaves a
\* calculator state that depends on the message and t alone, whatever the
\* device was doing before: playing, originalBpm = currentBpm = bpm, an empty
\* tempo history, the last breakpoint at t, and baseMusicTime = elapsedTime
\* with startTime = t - elapsedTime (elapsedTime counted in the clock's
\* milliseconds) when elapsedTime > 0, else baseMusicTime = 0 with
\* startTime = t.
C26_SyncStartResets ==
    [][ (lastOp'.op = "receive" /\ lastOp'.type = "sync_start")
        => LET data == lastOp'.data
               t == getCurrentTime(Device, now')
               core == dev'[Device]
           IN  /\ core.isPlaying
               /\ core.originalBpm = data.bpm
               /\ core.currentBpm = data.bpm
               /\ core.tempoChanges = << >>
               /\ core.lastTempoChangeTime = t
               /\ IF NumLt(Int2Num(0), data.elapsedTime)
                  THEN /\ NumEq(core.baseMusicTime, data.elapsedTime)
                       /\ NumEq(core.startTime,
                                NumSub(Int2Num(t),
                                       NumMul(data.elapsedTime, Int2Num(1000))))
                  ELSE /\ NumEq(core.baseMusicTime, Int2Num(0))
                       /\ NumEq(core.startTime, Int2Num(t)) ]_vars

\* a device that is playing with two tempo changes in its history
C26_Before ==
    /\ dev[Device].isPlaying
    /\ Len(dev[Device].tempoChanges) = MaxTempoChanges
    /\ dev[Device].currentBpm # dev[Device].originalBpm

\* C26's case: a sync_start with a positive elapsedTime and a bpm other than
\* the default has just been handled, later than the device's clock origin
C26_Witness ==
    /\ lastOp.op = "receive"
    /\ lastOp.type = "sync_start"
    /\ NumLt(Int2Num(0), lastOp.data.elapsedTime)
    /\ lastOp.data.bpm = 60
    /\ getCurrentTime(Device, now) > 0
    /\ dev[Device].tempoChanges = << >>
    /\ dev[Device].joinedLate

\* C27: handling tempo_change changes neither originalBpm nor startTime; a
\* sync_start sets originalBpm to its bpm, and until the next sync_start no
\* step of the calculator changes it, however many tempo changes come between.
C27_TempoKeepsBase ==
    [][ /\ (lastOp'.op = "receive" /\ lastOp'.type = "tempo_change")
           => /\ dev'[Device].originalBpm = dev[Device].originalBpm
              /\ dev'[Device].startTime = dev[Device].startTime
        /\ (lastOp'.op = "receive" /\ lastOp'.type = "sync_start")
           => dev'[Device].originalBpm = lastOp'.data.bpm
        /\ ~(lastOp'.op = "receive" /\ lastOp'.type = "sync_start")
           => dev'[Device].originalBpm = dev[Device].originalBpm ]_vars

\* C27's case: a playing device has handled its second tempo change since
\* the sync_start, and the tempo now differs from the base tempo
C27_Witness ==
    /\ lastOp.op = "receive"
    /\ lastOp.type = "tempo_change"
    /\ dev[Device].isPlaying
    /\ Len(dev[Device].tempoChanges) = MaxTempoChanges
    /\ dev[Device].currentBpm # dev[Device].originalBpm
    /\ dev[Device].tempoChanges[1].newBpm # dev[Device].originalBpm
    /\ ~Falsy(dev[Device].startTime)

\* max(0, baseMusicTime + (t - lastBreakpoint) * currentBpm / originalBpm),
\* in seconds, for a device whose clock reads t milliseconds
PositionByFormula(core, t) ==
    MathMax0(NumAdd(core.baseMusicTime,
                    NumMul(NumDiv(Int2Num(t - core.lastTempoChangeTime), Int2Num(1000)),
                           NumDiv(Int2Num(core.currentBpm), Int2Num(core.originalBpm)))))

\* C28: whenever a device's playing flag is set, getMusicTime equals
\* max(0, baseMusicTime + (now - lastBreakpoint) * currentBpm / originalBpm),
\* for every local start time, a start time of 0 included.
C28_MusicTimeByFormula ==
    \A d \in Clients :
        dev[d].isPlaying
        => NumEq(MusicTimeNow(d), PositionByFormula(dev[d], getCurrentTime(d, now)))

\* the same, for devices whose local start time is not 0
C28_FormulaAwayFromZeroStart ==
    \A d \in Clients :
        (dev[d].isPlaying /\ ~Falsy(dev[d].startTime))
        => NumEq(MusicTimeNow(d), PositionByFormula(dev[d], getCurrentTime(d, now)))

\* C33: handed the same sync_start, tempo_change and sync_stop events, the
\* core of public/js/piano-sync.js and the tempo-aware core return the same
\* getMusicTime at every instant.
C33_VariantsAgree ==
    NumEq(getMusicTimeSimple(dev[Simple], getCurrentTime(Device, now)),
          getMusicTime(dev[Device], getCurrentTime(Device, now)))

\* where the two cores do agree: as long as no tempo_change handled since
\* the sync_start has set a tempo other than the one the session started with
C33_VariantsAgreeAtBaseTempo ==
    (\A i \in DOMAIN dev[Device].tempoChanges :
        dev[Device].tempoChanges[i].newBpm = dev[Device].originalBpm)
    => NumEq(getMusicTimeSimple(dev[Simple], getCurrentTime(Device, now)),
             getMusicTime(dev[Device], getCurrentTime(Device, now)))

\* C34: whenever a device is connected and registered and has handled every
\* message sent to it, its playing flag is set exactly when the coordinator
\* has a session, whatever happened to the session while the device was
\* disconnected.
C34_PlayingFlagFollowsSession ==
    \A d \in Clients :
        Registered(d) => (dev[d].isPlaying <=> currentSession # null)

\* C40: a device that has been connected without interruption since the
\* session's fresh sync_start, and has handled every message sent to it,
\* has currentBpm equal to the session's bpm and originalBpm equal to the bpm
\* given to start, after any sequence of tempo commands.
C40_TempoAgreement ==
    \A d \in Clients :
        (currentSession # null /\ d \in ClientIds /\ dev[d].followedStart # 0)
        => /\ dev[d].currentBpm = currentSession.bpm
           /\ dev[d].originalBpm = dev[d].followedStart

\* the half of C40 about the tempo in force
C40_CurrentBpmAgrees ==
    \A d \in Clients :
        (currentSession # null /\ d \in ClientIds /\ dev[d].followedStart # 0)
        => dev[d].currentBpm = currentSession.bpm

\* C40 for the devices that were handed no catch-up since the start
C40_AgreementWithoutCatchUp ==
    \A d \in Clients :
        (/\ currentSession # null /\ d \in ClientIds /\ dev[d].followedStart # 0
         /\ ~Registered(d))
        => /\ dev[d].currentBpm = currentSession.bpm
           /\ dev[d].originalBpm = dev[d].followedStart

\* C7: getMusicTime is continuous at every tempo_change a playing device
\* handles: its value just before equals the baseMusicTime recorded and the
\* value it returns at the same instant just after.
C7_ContinuousAtBreakpoint ==
    [][ (/\ dev[Device].isPlaying
         /\ Len(dev'[Device].tempoChanges) = Len(dev[Device].tempoChanges) + 1)
        => LET before == MusicTimeNow(Device)
               after == getMusicTime(dev'[Device], getCurrentTime(Device, now'))
           IN  /\ NumEq(before, dev'[Device].baseMusicTime)
               /\ NumEq(after, before) ]_vars

\* C8: on a playing device getMusicTime does not decrease while time passes
\* with no message handled, and it is never negative, whatever bpm the
\* coordinator forwarded.
C8_MonotoneAndNonNegative ==
    [][ /\ ~NumLt(getMusicTime(dev'[Device], getCurrentTime(Device, now')), Int2Num(0))
        /\ (dev[Device].isPlaying /\ dev' = dev /\ now' > now)
           => NumLe(MusicTimeNow(Device),
                    getMusicTime(dev'[Device], getCurrentTime(Device, now'))) ]_vars

\* C9: after a fresh sync_start with bpm B0 and one tempo_change to B1 handled
\* at music time M, getMusicTime D seconds later is M + D * (B1 / B0), for
\* every B0 and B1 the coordinator forwards.
C9_TempoScenario ==
    LET core == dev[Device]
    IN  (/\ core.isPlaying /\ ~core.joinedLate
         /\ Len(core.tempoChanges) = 1)
        => LET M == core.tempoChanges[1].musicTimeAtChange
               D == NumDiv(Int2Num(getCurrentTime(Device, now) - core.tempoChanges[1].time),
                           Int2Num(1000))
               ratio == NumDiv(Int2Num(core.tempoChanges[1].newBpm),
                               Int2Num(core.originalBpm))
           IN  NumEq(MusicTimeNow(Device), NumAdd(M, NumMul(D, ratio)))

---------------------------------------------------------------------------
(* Properties of the latency estimate (SpecLink) *)

\* C18: on every pong the device sets latency to the round trip
\* rtt = localNow - echoed timestamp and the clock offset to
\* serverTimestamp - localNow + rtt / 2.
C18_PongEstimates ==
    lastOp.op = "pong" =>
        LET localNow == getCurrentTime(Device, now)
            rtt == localNow - lastOp.timestamp
        IN  /\ dev[Device].latency = rtt
            /\ NumEq(dev[Device].serverTimeOffset,
                     Num(2 * (lastOp.serverTime - localNow) + rtt, 2))

\* C18's case: a pong that took time to come back, with the three timestamps
\* all different
C18_Witness ==
    /\ lastOp.op = "pong"
    /\ dev[Device].latency > 0
    /\ lastOp.serverTime # getCurrentTime(Device, now)
    /\ lastOp.serverTime # lastOp.timestamp

\* C19: latency and serverTimeOffset change only when a pong is handled, not
\* when a ping is sent, an interval passes, the connection closes or reopens,
\* or another message is handled; an interval tick does nothing but send a
\* ping, whether or not the previous one was answered.
C19_EstimateChangesOnlyOnPong ==
    [][ /\ lastOp'.op # "pong"
           => /\ dev'[Device].latency = dev[Device].latency
              /\ dev'[Device].serverTimeOffset = dev[Device].serverTimeOffset
        /\ lastOp'.op = "measureLatency"
           => dev'[Device] = [dev[Device] EXCEPT !.pings = dev'[Device].pings] ]_vars

\* C19's case: an estimate made, a session started since, and an interval
\* tick while the previous ping has gone unanswered for a whole interval
C19_Witness ==
    /\ lastOp.op = "measureLatency"
    /\ ~NumEq(dev[Device].serverTimeOffset, Int2Num(0))
    /\ dev[Device].isPlaying
    /\ \E p \in dev[Device].pings :
           getCurrentTime(Device, now) - p >= latencyMeasureInterval

\* C38: reconnectAttempts never exceeds maxReconnectAttempts; every open
\* resets it to 0; and a close that finds it equal to maxReconnectAttempts
\* makes the device emit connectionFailed and schedule no connection attempt.
C38_ReconnectAttemptsBounded ==
    [][ /\ dev'[Device].reconnectAttempts <= maxReconnectAttempts
        /\ lastOp'.op = "onopen" => dev'[Device].reconnectAttempts = 0
        /\ (lastOp'.op = "onclose"
                /\ dev[Device].reconnectAttempts = maxReconnectAttempts)
           => /\ dev'[Device].connectionFailed
              /\ dev'[Device].reconnectAttempts = maxReconnectAttempts
              /\ dev'[Device].reconnectDue = -1
              /\ dev'[Device].ws = "closed" ]_vars

\* C38's case: the close after the last permitted attempt
C38_Witness ==
    /\ lastOp.op = "onclose"
    /\ dev[Device].reconnectAttempts = maxReconnectAttempts
    /\ dev[Device].connectionFailed
    /\ dev[Device].reconnectDue = -1

\* C38's reset: an open after several failed attempts
C38_WitnessReset ==
    /\ lastOp.op = "onopen"
    /\ dev[Device].reconnectAttempts = 0
    /\ now >= TimeOrigin[Device] + 2 * reconnectInterval

\* C39: once the application has called disconnect(), the core schedules no
\* reconnection attempt and opens no new WebSocket: the socket that
\* disconnect() is closing is followed by no pending reconnection timer and
\* no new connection.
C39_DisconnectIsFinal ==
    [][ dev[Device].ws = "closing"
        => /\ dev'[Device].reconnectDue = -1
           /\ dev'[Device].ws \in {"closing", "closed"} ]_vars

====
